---- MODULE Spec2Model ----
(***************************************************************************)
(* FazAI daemon (src/main.js): command classification, architecting, plan  *)
(* execution and the /command request handler, as a state machine.         *)
(*                                                                         *)
(* One request is followed from its arrival to its response.  Three entry  *)
(* points are modelled: the POST /command handler (which calls queryAI),   *)
(* FazAIDaemon.processCommand and ArchitectureSystem.processComplexCommand *)
(* (both reachable through the exported FazAIDaemon class).                *)
(*                                                                         *)
(* Strings are sequences of one-character strings.  External collaborators *)
(* (the shell, the AI provider, the architecting backends, the file        *)
(* system) answer nondeterministically.                                    *)
(***************************************************************************)
EXTENDS Naturals, Sequences, FiniteSets, TLC

\* ------------------------------------------------------------------ bounds
\* longest plan (number of steps) the architecting backends answer with
MaxSteps == 2
\* longest request string drawn for the classifier
MaxLen == 9
\* most lines backend B answers with when its output is no JSON
MaxLines == 3
\* most POST /reload requests served
MaxReloads == 2

\* ------------------------------------------------------------------ strings
\* the characters requests are made of: the two markers, white space, a letter
Alphabet == {"_", "?", " ", "a"}

IsWs(c) == c \in {" ", "\n"}

SeqsUpTo(S, n) == UNION {[1..k -> S] : k \in 0..n}

\* String.prototype.startsWith / endsWith for a one-character needle
StartsWith(s, c) == Len(s) >= 1 /\ s[1] = c
EndsWith(s, c) == Len(s) >= 1 /\ s[Len(s)] = c

\* String.prototype.trim
RECURSIVE TrimLeft(_)
TrimLeft(s) == IF s # <<>> /\ IsWs(Head(s)) THEN TrimLeft(Tail(s)) ELSE s

RECURSIVE TrimRight(_)
TrimRight(s) ==
  IF s # <<>> /\ IsWs(s[Len(s)]) THEN TrimRight(SubSeq(s, 1, Len(s) - 1)) ELSE s

Trim(s) == TrimRight(TrimLeft(s))

\* String.prototype.split(/\s+/): the pieces between the maximal runs of white
\* space; a run at either end yields an empty piece, "" yields [""].
RECURSIVE SplitFrom(_, _, _)
SplitFrom(s, i, cur) ==
  IF i > Len(s) THEN <<cur>>
  ELSE IF IsWs(s[i])
       THEN IF i > 1 /\ IsWs(s[i - 1])
            THEN SplitFrom(s, i + 1, cur)
            ELSE <<cur>> \o SplitFrom(s, i + 1, <<>>)
       ELSE SplitFrom(s, i + 1, Append(cur, s[i]))

SplitWs(s) == SplitFrom(s, 1, <<>>)

\* String.prototype.substring(1, length - 1)
StripMarkers(s) == SubSeq(s, 2, Len(s) - 1)

\* A command line handed to the shell: the program and the text after it.
\* EchoOf is the template `echo "${cleanCommand}"`; AiText stands for a
\* command line an AI backend wrote.
NoText == [prog |-> "none", arg |-> <<>>]
EchoOf(clean) == [prog |-> "echo", arg |-> clean]
AiText == [prog |-> "ai", arg |-> <<>>]

\* the stdout the exec callback receives: echo writes its argument and a
\* newline; any other program writes some text, here one line
Stdout(text) == IF text.prog = "echo" THEN text.arg \o <<"\n">> ELSE <<"a", "\n">>

\* one entry of the history of commands run: who ran it and the command line
Ran(what, text) == [what |-> what, text |-> text]

\* ------------------------------------------------------------------ classifier
\* const words = command.trim().split(/\s+/)
WordsNoTrim(command) == SplitWs(command)

Words(command) == SplitWs(Trim(command))

\* the architecting threshold of analyzeCommand: words.length > 4
ComplexThreshold == 4

\* AI_CONFIG.max_retries
max_retries == 3

\* command.startsWith('_') && command.endsWith('?')
IsQuestion(command) == StartsWith(command, "_") /\ EndsWith(command, "?")

analyzeCommand(command) ==
  LET words == Words(command)
      isQuestion == IsQuestion(command)
      isComplex == Len(words) > ComplexThreshold /\ ~isQuestion
  IN [isQuestion |-> isQuestion,
      isComplex |-> isComplex,
      wordCount |-> Len(words),
      needsArchitecting |-> isComplex]

NoAnalysis ==
  [isQuestion |-> FALSE, isComplex |-> FALSE, wordCount |-> 0,
   needsArchitecting |-> FALSE]

\* the requests sent through the orchestration paths: empty, white space only,
\* one word, four words, five words, a short question and a question of five
\* words
Requests ==
  { <<>>,
    <<" ">>,
    <<"a">>,
    <<"a", " ", "a", " ", "a", " ", "a">>,
    <<"a", " ", "a", " ", "a", " ", "a", " ", "a">>,
    <<"_", "a", "?">>,
    <<"_", "a", " ", "a", " ", "a", " ", "a", " ", "a", "?">> }

\* the requests handed to ArchitectureSystem.processComplexCommand
ComplexRequests == {cmd \in Requests : analyzeCommand(cmd).isComplex}

\* ------------------------------------------------------------------ plans
\* A step of a plan as the backend's JSON gives it: a command string (the shape
\* architectCommand asks for) or an object {description, command, critical}
\* (the shape executeArchitecture reads), whose command may be missing.
StringStep == [form |-> "string", command |-> TRUE, critical |-> FALSE, text |-> <<"a">>]

ObjectSteps == [form : {"object"}, command : BOOLEAN, critical : BOOLEAN, text : {<<"a">>}]

StepValues == {StringStep} \cup ObjectSteps

\* required_info: absent, [] or a non-empty list
NoInfo == [defined |-> FALSE, items |-> <<>>]

RequiredInfoValues ==
  {NoInfo, [defined |-> TRUE, items |-> <<>>], [defined |-> TRUE, items |-> <<"info">>]}

\* needs_agent is only ever tested for truthiness: absent counts as false
Plans ==
  [needs_agent : BOOLEAN,
   required_info : RequiredInfoValues,
   steps : SeqsUpTo(StepValues, MaxSteps),
   complexity : {"media"}]

NoPlan ==
  [needs_agent |-> FALSE, required_info |-> NoInfo, steps |-> <<>>, complexity |-> "none"]

\* JavaScript truthiness of plan.required_info: undefined is falsy, every
\* array, the empty one included, is truthy
InfoTruthy(info) == info.defined

\* if (plan.needs_agent && plan.required_info)
NeedsInteractionNever(p) == FALSE

NeedsInteraction(p) == p.needs_agent /\ InfoTruthy(p.required_info)

\* ------------------------------------------------------------------ state
VARIABLES
  continue_on_error,  \* AI_CONFIG.continue_on_error
  enable_fallback,    \* AI_CONFIG.enable_fallback
  entry,              \* the entry point the request came through
  command,            \* the request string
  mcps,               \* the mcps flag of the request body
  pc,                 \* the position of the request's continuation
  analysis,           \* the result of analyzeCommand
  architectResult,    \* what architecting resolved with
  plan,               \* the plan handed to the executor
  idx,                \* number of loop iterations begun by the executor
  results,            \* the executor's results array
  running,            \* steps whose shell command is in flight
  started,            \* history: the steps taken up, in the order taken up
  pushed,             \* history: every entry handed to results.push, in order
  exits,              \* history: how the command of each step taken up ended
  halted,             \* history: the statement that ended the loop
  execStatus,         \* history: how the executor's call ended
  reached,            \* history: the components the request went through
  interp,             \* what queryAI returned to the handler
  mcpsLines,          \* number of lines queryAIForSteps returned
  mcpsResults,        \* the results array of the MCPS loop
  response,           \* the response sent, or the value returned or thrown
  resultText,         \* the result field of the response, or the value resolved
  executed,           \* history: the commands the handler or the daemon ran
  provider,           \* the default provider's configuration as read
  posts,              \* history: the HTTP POSTs issued to the provider
  providerError,      \* the error queryProvider threw
  stages,             \* history: the fallback stages attempted, with outcome
  backendA,           \* architecting backend A (genaiscript) for this request
  backendB,           \* architecting backend B (deepseek helper)
  timer,              \* the 30 s timer of each backend spawn: "none", "armed", "fired"
  body,               \* the fields of the JSON body of the response
  sent,               \* the number of responses written for the request
  caught,             \* the error the catch block of the handler caught
  child,              \* each backend child: "none", "alive" until its close event, "closed"
  MODS_DIR,           \* the .so files of /opt/fazai/mods, by what fazai_mod_init of each returns
  TOOLS_DIR,          \* the .js files of the plugin directory, by what require() of each does
  isTTY,              \* process.stdin.isTTY
  loadedMods,         \* the native module registry, by the load pass that wrote each entry
  loadedTools,        \* the plugin registry, by the load pass that wrote each entry
  lifecycle,          \* the most recent lifecycle call made on each native module
  cleanups,           \* fazai_mod_cleanup calls on each module since its last fazai_mod_init that returned 0
  loads               \* load passes run so far, the one of start() included

config == <<continue_on_error, enable_fallback>>
request == <<entry, command, mcps>>
mcpsVars == <<mcpsLines, mcpsResults>>
queryVars == <<resultText, executed, provider, posts, providerError, stages>>
callVars ==
  <<resultText, executed, provider, posts, providerError, stages, backendA,
    backendB, timer>>
httpVars == <<body, sent, caught>>
childVars == <<child>>
registryVars == <<MODS_DIR, TOOLS_DIR, isTTY, loadedMods, loadedTools, lifecycle, cleanups, loads>>
execVars == <<plan, idx, results, running, started, pushed, exits, halted, execStatus>>
vars ==
  <<continue_on_error, enable_fallback, entry, command, mcps, pc, analysis,
    architectResult, plan, idx, results, running, started, pushed, exits, halted,
    execStatus, reached, interp, mcpsLines, mcpsResults, response, resultText,
    executed, provider, posts, providerError, stages, backendA, backendB, timer,
    body, sent, caught,
    child,
    MODS_DIR, TOOLS_DIR, isTTY, loadedMods, loadedTools, lifecycle, cleanups, loads>>

NoArchitectResult ==
  [success |-> FALSE, isArchitected |-> FALSE, method |-> "none", interpretation |-> NoPlan,
   content |-> <<>>]

NoInterp ==
  [kind |-> "none", success |-> FALSE, isQuestion |-> FALSE,
   requires_interaction |-> FALSE, execution_results |-> FALSE,
   plan |-> NoPlan, required_info |-> NoInfo, interpretation |-> NoText]

\* An error object as the catch block of the handler reads it: err.message is
\* a text with one of the substrings the block looks for ("API",
\* "ECONNREFUSED" or "ETIMEDOUT", "command"), another text, or undefined as
\* for the {error, stderr} object executeCommand rejects with
Messages == {"API", "ECONNREFUSED", "command", "other"}
Undefined == "undefined"
Error(message) == [message |-> message]
NoError == Error("none")

NoResponse == [kind |-> "none", status |-> 0, success |-> FALSE, type |-> "none"]

\* res.json / res.status(n).json of the /command handler
Json(status, success, type) ==
  [kind |-> "http", status |-> status, success |-> success, type |-> type]

\* a value returned by, or an error thrown out of, a method called directly
Returned(type) == [kind |-> "return", status |-> 0, success |-> TRUE, type |-> type]
Thrown(type) == [kind |-> "throw", status |-> 0, success |-> FALSE, type |-> type]

\* AI_CONFIG is the daemon's configuration object.  enable_fallback is read
\* from /etc/fazai/fazai.conf at start-up; continue_on_error is the flag
\* executePlan reads, whose value is the one the configuration object holds.
\* the two spawned backends: A is genaiscript.js, B is deepseek_helper_standalone
Backends == {"A", "B"}

\* ------------------------------------------------------------------ registries
\* the names of the native modules and of the plugins that can be on disk
Mods == {"a", "b"}
Tools == {"t"}

\* a .so file: not in the directory, fazai_mod_init() returns 0, or it
\* returns another code
ModFiles == {"absent", "ok", "bad"}

\* a .js file: not in the directory, require() returns the plugin, or throws
ToolFiles == {"absent", "ok", "throws"}

\* loadedMods[name] and loadedTools[name] of a name that was never written
NoEntry == 0

\* Object.keys(registry)
Keys(registry) == {k \in DOMAIN registry : registry[k] # NoEntry}

\* loadTools: without a TTY every plugin is skipped; with one, each file that
\* require() loads is written over its entry, the other entries stay
loadTools(registry, dir, tty, pass) ==
  [t \in Tools |-> IF tty /\ dir[t] = "ok" THEN pass ELSE registry[t]]

\* loadNativeModules: fazai_mod_init() of every .so in the directory; the
\* entry is written when it returns 0, the other entries stay
loadNativeModules(registry, dir, pass) ==
  [m \in Mods |-> IF dir[m] = "ok" THEN pass ELSE registry[m]]

\* the lifecycle calls of loadNativeModules
InitCalls(calls, dir) ==
  [m \in Mods |-> CASE dir[m] = "ok" -> "init0"
                    [] dir[m] = "bad" -> "initfail"
                    [] OTHER -> calls[m]]

\* the lifecycle calls of the cleanup loop of /reload
CleanupCalls(calls, registry) ==
  [m \in Mods |-> IF m \in Keys(registry) THEN "cleanup" ELSE calls[m]]

InitRequest ==
  /\ continue_on_error \in BOOLEAN
  /\ enable_fallback \in BOOLEAN
  /\ entry = "none"
  /\ command = <<>>
  /\ mcps = FALSE
  /\ pc = "idle"
  /\ analysis = NoAnalysis
  /\ architectResult = NoArchitectResult
  /\ plan = NoPlan
  /\ idx = 0
  /\ results = <<>>
  /\ running = {}
  /\ started = <<>>
  /\ pushed = <<>>
  /\ exits = <<>>
  /\ halted = "none"
  /\ execStatus = "none"
  /\ reached = {}
  /\ interp = NoInterp
  /\ mcpsLines = 0
  /\ mcpsResults = <<>>
  /\ response = NoResponse
  /\ resultText = <<>>
  /\ executed = <<>>
  /\ provider = "unread"
  /\ posts = <<>>
  /\ providerError = "none"
  /\ stages = <<>>
  /\ backendA = "untried"
  /\ backendB = "untried"
  /\ timer = [b \in Backends |-> "none"]
  /\ body = <<>>
  /\ sent = 0
  /\ caught = NoError
  /\ child = [b \in Backends |-> "none"]

\* the daemon started on empty directories
Init ==
  /\ InitRequest
  /\ MODS_DIR = [m \in Mods |-> "absent"]
  /\ TOOLS_DIR = [t \in Tools |-> "absent"]
  /\ isTTY = FALSE
  /\ loadedMods = [m \in Mods |-> NoEntry]
  /\ loadedTools = [t \in Tools |-> NoEntry]
  /\ lifecycle = [m \in Mods |-> "none"]
  /\ cleanups = [m \in Mods |-> 0]
  /\ loads = 1

\* FazAIDaemon.start(): loadTools(); loadNativeModules(); on any directories
InitReload ==
  /\ InitRequest
  /\ MODS_DIR \in [Mods -> ModFiles]
  /\ TOOLS_DIR \in [Tools -> ToolFiles]
  /\ isTTY \in BOOLEAN
  /\ loadedTools = loadTools([t \in Tools |-> NoEntry], TOOLS_DIR, isTTY, 1)
  /\ loadedMods = loadNativeModules([m \in Mods |-> NoEntry], MODS_DIR, 1)
  /\ lifecycle = InitCalls([m \in Mods |-> "none"], MODS_DIR)
  /\ cleanups = [m \in Mods |-> 0]
  /\ loads = 1

\* ------------------------------------------------------------------ POST /command
\* res.json(b): one more response written, b its body.  JSON.stringify leaves
\* out a field whose value is undefined.
Send(b) ==
  /\ body' = b
  /\ sent' = sent + 1

\* the catch block of the handler: errorMessage and friendlyMessage
errorMessage(err) == IF err.message = Undefined THEN "Erro desconhecido" ELSE err.message

friendlyMessage(err) ==
  CASE err.message = "API" -> "Erro de comunicacao com o provedor de IA"
    [] err.message = "ECONNREFUSED" -> "Nao foi possivel conectar ao servico de IA"
    [] err.message = "command" -> "Erro ao executar o comando no sistema"
    [] OTHER -> "Erro interno ao processar comando"

\* res.status(500).json({command, error: errorMessage, details: err.message,
\* success: false})
CatchBody(cmd, err) ==
  IF err.message = Undefined
  THEN [command |-> cmd, error |-> errorMessage(err), success |-> FALSE]
  ELSE [command |-> cmd, error |-> errorMessage(err), details |-> err.message,
        success |-> FALSE]

CatchSilent(err) ==
  /\ caught' = err
  /\ UNCHANGED <<body, sent>>
Catch(err) ==
  /\ caught' = err
  /\ Send(CatchBody(command, err))

\* app.post('/command'): a request without a command is answered 400 at once,
\* any other goes to queryAI.
\* the test `if (!command)`: the command is absent or the empty string
NoCommandMissing(cmd) == FALSE
MissingCommand(cmd) == cmd = <<>>

PostCommand(cmd, m) ==
  /\ pc = "idle"
  /\ entry' = "command"
  /\ command' = cmd
  /\ mcps' = m
  /\ IF MissingCommand(cmd)
     THEN /\ response' = Json(400, FALSE, "none")
          /\ Send([error |-> "Comando nao fornecido", success |-> FALSE])
          /\ pc' = "done"
     ELSE /\ response' = response
          /\ UNCHANGED <<body, sent>>
          /\ pc' = "queryAI"
  /\ UNCHANGED <<config, analysis, architectResult, execVars, reached, interp, mcpsVars>>
  /\ UNCHANGED callVars
  /\ UNCHANGED caught
  /\ UNCHANGED childVars
  /\ UNCHANGED registryVars

\* processQuestion: the echo of the request without its first and last character
processQuestion(cmd) ==
  [kind |-> "question", success |-> TRUE, isQuestion |-> TRUE,
   requires_interaction |-> FALSE, execution_results |-> FALSE,
   plan |-> NoPlan, required_info |-> NoInfo,
   interpretation |-> EchoOf(StripMarkers(cmd))]

\* queryAI up to its first await: classify, then one of the three branches
QueryAI ==
  /\ pc = "queryAI"
  /\ analysis' = analyzeCommand(command)
  /\ IF analysis'.isQuestion
     THEN /\ interp' = processQuestion(command)
          /\ pc' = "handler"
          /\ reached' = reached
     ELSE IF analysis'.needsArchitecting
     THEN /\ interp' = interp
          /\ pc' = "architectCommand"
          /\ reached' = reached \cup {"PlanArchitect"}
     ELSE /\ interp' = interp
          /\ pc' = "queryProvider"
          /\ reached' = reached
  /\ UNCHANGED <<config, request, architectResult, execVars, mcpsVars, response>>
  /\ UNCHANGED callVars
  /\ UNCHANGED httpVars
  /\ UNCHANGED childVars
  /\ UNCHANGED registryVars

\* ------------------------------------------------------------------ architectCommand
\* queryAI after architectCommand resolved: a successful architecting goes to
\* executePlan, a failed one falls through to the provider query
AfterArchitect(res) ==
  IF res.success /\ res.isArchitected THEN "executePlan" ELSE "queryProvider"

ArchitectResolves(res) ==
  /\ architectResult' = res
  /\ pc' = AfterArchitect(res)
  /\ UNCHANGED <<config, request, analysis, execVars, reached, interp, mcpsVars, response>>

\* a backend process spawned: it exits at some time, or it never does
ChildStates == {"running", "hung"}

\* resolve(value) of the promise of a backend call: a promise is settled by
\* its first resolve, later calls are ignored
ResolveOverwrites(outcome, value) == value

Resolve(outcome, value) == IF outcome \in ChildStates THEN value ELSE outcome

\* architectCommand: backend A is run by exec, without a timeout, when its
\* script exists on disk; otherwise backend B is asked directly
ArchitectCommand ==
  /\ pc = "architectCommand"
  /\ \E exists \in BOOLEAN :
       IF exists
       THEN /\ pc' = "genaiscript"
            /\ backendA' \in ChildStates
            /\ backendB' = backendB
       ELSE /\ pc' = "fallbackToDeepseek"
            /\ backendA' = "absent"
            /\ backendB' = "running"
  /\ UNCHANGED <<config, request, analysis, architectResult, execVars, reached,
                 interp, mcpsVars, response>>
  /\ UNCHANGED <<queryVars, timer>>
  /\ UNCHANGED httpVars
  /\ UNCHANGED childVars
  /\ UNCHANGED registryVars

\* the exec callback of backend A with a plan on stdout
GenaiscriptPlan(p) ==
  /\ pc = "genaiscript"
  /\ backendA = "running"
  /\ backendA' = "plan"
  /\ ArchitectResolves([success |-> TRUE, isArchitected |-> TRUE,
                        method |-> "genaiscript", interpretation |-> p,
                        content |-> <<>>])
  /\ UNCHANGED <<queryVars, backendB, timer>>
  /\ UNCHANGED httpVars
  /\ UNCHANGED childVars
  /\ UNCHANGED registryVars

\* the exec callback of backend A with an error (a non-zero exit) or with
\* stdout that is no JSON: both resolve fallbackToDeepseek(command)
GenaiscriptFails(kind) ==
  /\ pc = "genaiscript"
  /\ backendA = "running"
  /\ backendA' = kind
  /\ backendB' = "running"
  /\ pc' = "fallbackToDeepseek"
  /\ UNCHANGED <<config, request, analysis, architectResult, execVars, reached,
                 interp, mcpsVars, response>>
  /\ UNCHANGED <<queryVars, timer>>
  /\ UNCHANGED httpVars
  /\ UNCHANGED childVars
  /\ UNCHANGED registryVars

\* fallbackToDeepseek: backend B answered with a JSON plan
DeepseekPlan(p) ==
  /\ pc = "fallbackToDeepseek"
  /\ backendB' = "plan"
  /\ ArchitectResolves([success |-> TRUE, isArchitected |-> TRUE,
                        method |-> "deepseek", interpretation |-> p,
                        content |-> <<>>])
  /\ UNCHANGED <<queryVars, backendA, timer>>
  /\ UNCHANGED httpVars
  /\ UNCHANGED childVars
  /\ UNCHANGED registryVars

\* result.content.split('\n').filter(line => line.trim())
RECURSIVE NonEmptyLines(_)
NonEmptyLines(lines) ==
  IF lines = <<>> THEN <<>>
  ELSE IF Trim(Head(lines)) = <<>>
       THEN NonEmptyLines(Tail(lines))
       ELSE <<Head(lines)>> \o NonEmptyLines(Tail(lines))

\* the lines backend B may answer with: empty, white space, a command, a
\* command after white space
LineValues == {<<>>, <<" ">>, <<"a">>, <<" ", "a">>}

\* a step that is the string of one line
LineStep(line) == [StringStep EXCEPT !.text = line]

\* the plan of the catch (parseErr) block: the non-empty lines as steps,
\* needs_agent true, complexity "alta", no required_info
TextPlanUnfiltered(lines) ==
  [needs_agent |-> TRUE, required_info |-> NoInfo, complexity |-> "alta",
   steps |-> [i \in 1..Len(lines) |-> LineStep(lines[i])]]
TextPlan(lines) ==
  [needs_agent |-> TRUE, required_info |-> NoInfo, complexity |-> "alta",
   steps |-> [i \in 1..Len(NonEmptyLines(lines)) |-> LineStep(NonEmptyLines(lines)[i])]]

\* fallbackToDeepseek: backend B answered with text that is no JSON; content
\* keeps the lines of result.content
DeepseekText(lines) ==
  /\ pc = "fallbackToDeepseek"
  /\ ArchitectResolves(
       [success |-> TRUE, isArchitected |-> TRUE, method |-> "deepseek_text",
        interpretation |-> TextPlan(lines), content |-> lines])
  /\ backendB' = "text"
  /\ UNCHANGED <<queryVars, backendA, timer>>
  /\ UNCHANGED httpVars
  /\ UNCHANGED childVars
  /\ UNCHANGED registryVars

\* fallbackToDeepseek: backend B failed or threw: the one-step error plan
DeepseekFails ==
  /\ pc = "fallbackToDeepseek"
  /\ ArchitectResolves(
       [success |-> FALSE, isArchitected |-> TRUE, method |-> "error",
        interpretation |->
          [needs_agent |-> FALSE, required_info |-> NoInfo, complexity |-> "alta",
           steps |-> <<StringStep>>],
        content |-> <<>>])
  /\ backendB' = "failed"
  /\ UNCHANGED <<queryVars, backendA, timer>>
  /\ UNCHANGED httpVars
  /\ UNCHANGED childVars
  /\ UNCHANGED registryVars

\* ------------------------------------------------------------------ executePlan
\* the value executePlan returns when the plan needs the operator's answers
InteractionResult(p) ==
  [kind |-> "interaction", success |-> TRUE, isQuestion |-> FALSE,
   requires_interaction |-> TRUE, execution_results |-> FALSE,
   plan |-> p, required_info |-> p.required_info,
   interpretation |-> [prog |-> "plan", arg |-> <<>>]]

\* the value executePlan returns after its loop
ExecutionResult(p) ==
  [kind |-> "executed", success |-> TRUE, isQuestion |-> FALSE,
   requires_interaction |-> FALSE, execution_results |-> TRUE,
   plan |-> p, required_info |-> NoInfo,
   interpretation |-> [prog |-> "request", arg |-> command]]

\* executePlan entered with the architected plan: the interaction case returns
\* at once, any other plan goes to the loop over plan.steps
ExecutePlan ==
  /\ pc = "executePlan"
  /\ plan' = architectResult.interpretation
  /\ results' = <<>>
  /\ reached' = reached \cup {"PlanExecutor"}
  /\ IF NeedsInteraction(plan')
     THEN /\ interp' = InteractionResult(plan')
          /\ execStatus' = "interaction"
          /\ pc' = "handler"
     ELSE /\ interp' = interp
          /\ execStatus' = "running"
          /\ pc' = "planLoop"
  /\ UNCHANGED <<config, request, analysis, architectResult, idx, running, started,
                 pushed, exits, halted, mcpsVars, response>>
  /\ UNCHANGED callVars
  /\ UNCHANGED httpVars
  /\ UNCHANGED childVars
  /\ UNCHANGED registryVars

\* results.push of either executor: entry i is the result of step i
Push(i, ok) == [step |-> i, success |-> ok]

\* `await executeCommand(step)`: the continuation waits for the command to end
PlanNoAwait == "planLoop"

PlanAwait == "planStepWait"

\* if (!AI_CONFIG.continue_on_error) break;   -- after a failed step
PlanBreaksAlways(step) == TRUE

PlanBreaks(step) == ~continue_on_error

\* the catch block of the loop body, followed by the return when the loop breaks
PlanStepFailed(i, how) ==
  /\ results' = Append(results, Push(i, FALSE))
  /\ pushed' = Append(pushed, Push(i, FALSE))
  /\ exits' = Append(exits, how)
  /\ IF PlanBreaks(plan.steps[i])
     THEN /\ halted' = "continue_on_error"
          /\ execStatus' = "returned"
          /\ interp' = ExecutionResult(plan)
          /\ pc' = "handler"
     ELSE /\ halted' = halted
          /\ execStatus' = execStatus
          /\ interp' = interp
          /\ pc' = "planLoop"

\* the loop takes up the next step, a command string: the shell runs it
PlanStepStart ==
  /\ pc = "planLoop"
  /\ idx < Len(plan.steps)
  /\ plan.steps[idx + 1].form = "string"
  /\ idx' = idx + 1
  /\ started' = Append(started, idx + 1)
  /\ running' = running \cup {idx + 1}
  /\ reached' = reached \cup {"CommandRunner"}
  /\ pc' = PlanAwait
  /\ UNCHANGED <<config, request, analysis, architectResult, plan, results, pushed,
                 exits, halted, execStatus, interp, mcpsVars, response>>
  /\ UNCHANGED callVars
  /\ UNCHANGED httpVars
  /\ UNCHANGED childVars
  /\ UNCHANGED registryVars

\* the loop takes up the next step, an object: exec rejects an argument that is
\* no string, the promise of executeCommand is rejected and the catch block runs
PlanStepRejected ==
  /\ pc = "planLoop"
  /\ idx < Len(plan.steps)
  /\ plan.steps[idx + 1].form = "object"
  /\ idx' = idx + 1
  /\ started' = Append(started, idx + 1)
  /\ reached' = reached \cup {"CommandRunner"}
  /\ PlanStepFailed(idx + 1, "rejected")
  /\ UNCHANGED <<config, request, analysis, architectResult, plan, running, mcpsVars,
                 response>>
  /\ UNCHANGED callVars
  /\ UNCHANGED httpVars
  /\ UNCHANGED childVars
  /\ UNCHANGED registryVars

\* the command of the step exits with status 0
PlanStepSucceeds ==
  /\ pc = "planStepWait"
  /\ running' = running \ {idx}
  /\ results' = Append(results, Push(idx, TRUE))
  /\ pushed' = Append(pushed, Push(idx, TRUE))
  /\ exits' = Append(exits, "ok")
  /\ pc' = "planLoop"
  /\ UNCHANGED <<config, request, analysis, architectResult, plan, idx, started,
                 halted, execStatus, reached, interp, mcpsVars, response>>
  /\ UNCHANGED callVars
  /\ UNCHANGED httpVars
  /\ UNCHANGED childVars
  /\ UNCHANGED registryVars

\* the command of the step fails
PlanStepFails ==
  /\ pc = "planStepWait"
  /\ running' = running \ {idx}
  /\ PlanStepFailed(idx, "error")
  /\ UNCHANGED <<config, request, analysis, architectResult, plan, idx, started,
                 reached, mcpsVars, response>>
  /\ UNCHANGED callVars
  /\ UNCHANGED httpVars
  /\ UNCHANGED childVars
  /\ UNCHANGED registryVars

\* the loop is through plan.steps
PlanReturn ==
  /\ pc = "planLoop"
  /\ idx = Len(plan.steps)
  /\ halted' = "end"
  /\ execStatus' = "returned"
  /\ interp' = ExecutionResult(plan)
  /\ pc' = "handler"
  /\ UNCHANGED <<config, request, analysis, architectResult, plan, idx, results,
                 running, started, pushed, exits, reached, mcpsVars, response>>
  /\ UNCHANGED callVars
  /\ UNCHANGED httpVars
  /\ UNCHANGED childVars
  /\ UNCHANGED registryVars

\* ------------------------------------------------------------------ provider query and fallback
\* the fixed interpretation queryAI returns when nothing could interpret
DegradedResult ==
  [kind |-> "degraded", success |-> FALSE, isQuestion |-> FALSE,
   requires_interaction |-> FALSE, execution_results |-> FALSE,
   plan |-> NoPlan, required_info |-> NoInfo,
   interpretation |-> EchoOf(<<"Nao foi possivel interpretar o comando via IA.">>)]

\* {interpretation, success: true} of queryProvider or of the standalone helper
InterpretationResult(kind) ==
  [kind |-> kind, success |-> TRUE, isQuestion |-> FALSE,
   requires_interaction |-> FALSE, execution_results |-> FALSE,
   plan |-> NoPlan, required_info |-> NoInfo, interpretation |-> AiText]

\* The default provider as the request finds it: process.env.DEFAULT_PROVIDER
\* or AI_CONFIG.default_provider names a provider of AI_CONFIG.providers or
\* not, and a registered one has its key in the configuration ("key"), only
\* in the environment variable <PROVIDER>_API_KEY ("envkey"), or nowhere
ProviderStates == {"key", "envkey", "nokey", "unknown"}

\* the checks of queryProvider before the request: the provider is registered
\* and providerConfig.api_key || process.env[...] is not empty
KeyResolved(p) == p \in {"key", "envkey"}

\* the Authorization header of queryAIForSteps is built from
\* providerConfig.api_key alone
ConfigKey(p) == p = "key"

\* one HTTP POST to the provider's /chat/completions
Post(by, p, key) == [by |-> by, provider |-> p, key |-> key]

\* a fallback stage called, and how it ended
Stage(name, outcome) == [stage |-> name, outcome |-> outcome]
StageEnds(outcome) ==
  [stages EXCEPT ![Len(stages)] = Stage(stages[Len(stages)].stage, outcome)]

\* the test `if (AI_CONFIG.enable_fallback)` of the catch block
FallbackAlways == TRUE
FallbackEnabled == enable_fallback

\* the catch block of queryAI: with fallback enabled the standalone helper is
\* run when it exists on disk and the in-process helper is called otherwise;
\* with fallback disabled the degraded interpretation is returned
ProviderFailed ==
  IF FallbackEnabled
  THEN /\ reached' = reached \cup {"ProviderGateway", "FallbackChain"}
       /\ interp' = interp
       /\ \E exists \in BOOLEAN :
            /\ pc' = IF exists THEN "standaloneHelper" ELSE "deepseekFallback"
            /\ stages' = Append(stages, Stage(IF exists THEN "standalone" ELSE "inprocess",
                                              "running"))
  ELSE /\ reached' = reached \cup {"ProviderGateway"}
       /\ interp' = DegradedResult
       /\ pc' = "handler"
       /\ stages' = stages

\* queryProvider with a registered provider and a key: the one HTTP POST of
\* the call is issued
QueryProviderPosts ==
  /\ pc = "queryProvider"
  /\ \E p \in ProviderStates :
       /\ KeyResolved(p)
       /\ provider' = p
       /\ posts' = Append(posts, Post("queryProvider", p, TRUE))
  /\ reached' = reached \cup {"ProviderGateway"}
  /\ pc' = "providerPost"
  /\ UNCHANGED <<config, request, analysis, architectResult, execVars, interp,
                 mcpsVars, response>>
  /\ UNCHANGED <<resultText, executed, providerError, stages, backendA, backendB,
                 timer>>
  /\ UNCHANGED httpVars
  /\ UNCHANGED childVars
  /\ UNCHANGED registryVars

\* queryProvider throws before any request: unknown provider or no API key
QueryProviderThrows ==
  /\ pc = "queryProvider"
  /\ \E p \in ProviderStates :
       /\ ~KeyResolved(p)
       /\ provider' = p
       /\ providerError' = p
  /\ ProviderFailed
  /\ UNCHANGED <<config, request, analysis, architectResult, execVars, mcpsVars,
                 response>>
  /\ UNCHANGED <<resultText, executed, posts, backendA, backendB, timer>>
  /\ UNCHANGED httpVars
  /\ UNCHANGED childVars
  /\ UNCHANGED registryVars

\* the provider answered the POST
ProviderAnswers ==
  /\ pc = "providerPost"
  /\ interp' = InterpretationResult("provider")
  /\ pc' = "handler"
  /\ UNCHANGED <<config, request, analysis, architectResult, execVars, reached,
                 mcpsVars, response>>
  /\ UNCHANGED callVars
  /\ UNCHANGED httpVars
  /\ UNCHANGED childVars
  /\ UNCHANGED registryVars

\* the POST failed: the catch block of queryProvider logs and rethrows
ProviderPostFails ==
  /\ pc = "providerPost"
  /\ providerError' = "post"
  /\ ProviderFailed
  /\ UNCHANGED <<config, request, analysis, architectResult, execVars, mcpsVars,
                 response>>
  /\ UNCHANGED <<resultText, executed, provider, posts, backendA, backendB, timer>>
  /\ UNCHANGED httpVars
  /\ UNCHANGED childVars
  /\ UNCHANGED registryVars

\* the exec callback of the standalone helper: its stdout is the
\* interpretation, or on an error the degraded interpretation is resolved
StandaloneHelperExits(ok) ==
  /\ pc = "standaloneHelper"
  /\ interp' = IF ok THEN InterpretationResult("standalone") ELSE DegradedResult
  /\ stages' = StageEnds(IF ok THEN "success" ELSE "failure")
  /\ pc' = "handler"
  /\ UNCHANGED <<config, request, analysis, architectResult, execVars, reached,
                 mcpsVars, response>>
  /\ UNCHANGED <<resultText, executed, provider, posts, providerError, backendA,
                 backendB, timer>>
  /\ UNCHANGED httpVars
  /\ UNCHANGED childVars
  /\ UNCHANGED registryVars

\* `return await deepseekFallback(command)`: the helper's own result object is
\* returned, whatever its success field says; if the helper throws the catch
\* block logs and the degraded interpretation is returned
DeepseekFallbackReturns(how) ==
  /\ pc = "deepseekFallback"
  /\ interp' = CASE how = "success" -> InterpretationResult("deepseek")
                 [] how = "failure" -> [DegradedResult EXCEPT !.kind = "deepseek"]
                 [] OTHER -> DegradedResult
  /\ stages' = StageEnds(how)
  /\ pc' = "handler"
  /\ UNCHANGED <<config, request, analysis, architectResult, execVars, reached,
                 mcpsVars, response>>
  /\ UNCHANGED <<resultText, executed, provider, posts, providerError, backendA,
                 backendB, timer>>
  /\ UNCHANGED httpVars
  /\ UNCHANGED childVars
  /\ UNCHANGED registryVars

\* ------------------------------------------------------------------ /command after queryAI
\* the command the last branch of the handler hands to executeCommand (the
\* "modo tradicional"): the interpretation itself
SimpleCommandNone(i) == NoText
SimpleCommand(i) == i.interpretation

\* the handler after `await queryAI(command)`: the first matching branch answers
\* or starts the command it needs
Handler ==
  /\ pc = "handler"
  /\ IF ~interp.success
     THEN /\ response' = Json(200, FALSE, "none")
          /\ Send([command |-> command, interpretation |-> interp.interpretation,
                   error |-> "Falha na interpretacao do comando", success |-> FALSE])
          /\ pc' = "done"
          /\ reached' = reached
          /\ executed' = executed
     ELSE IF interp.isQuestion
     THEN /\ response' = response
          /\ UNCHANGED <<body, sent>>
          /\ pc' = "questionExec"
          /\ reached' = reached \cup {"CommandRunner"}
          /\ executed' = Append(executed, Ran("question", interp.interpretation))
     ELSE IF interp.requires_interaction
     THEN /\ response' = Json(200, TRUE, "interactive")
          /\ Send([command |-> command, plan |-> interp.plan,
                   required_info |-> interp.required_info, message |-> "interativa",
                   type |-> "interactive", success |-> TRUE])
          /\ pc' = "done"
          /\ reached' = reached
          /\ executed' = executed
     ELSE IF interp.execution_results
     THEN /\ response' = Json(200, TRUE, "architected")
          /\ Send([command |-> command, plan |-> interp.plan,
                   execution_results |-> results, type |-> "architected",
                   success |-> TRUE])
          /\ pc' = "done"
          /\ reached' = reached
          /\ executed' = executed
     ELSE IF mcps
     THEN /\ response' = response
          /\ UNCHANGED <<body, sent>>
          /\ pc' = "mcpsQuery"
          /\ reached' = reached
          /\ executed' = executed
     ELSE /\ response' = response
          /\ UNCHANGED <<body, sent>>
          /\ pc' = "simpleExec"
          /\ reached' = reached \cup {"CommandRunner"}
          /\ executed' = Append(executed, Ran("simple", SimpleCommand(interp)))
  /\ UNCHANGED <<config, request, analysis, architectResult, execVars, interp, mcpsVars>>
  /\ UNCHANGED <<resultText, provider, posts, providerError, stages, backendA,
                 backendB, timer>>
  /\ UNCHANGED caught
  /\ UNCHANGED childVars
  /\ UNCHANGED registryVars

\* the echo of a question ended: result.stdout is the result as it is, or
\* the catch block answers 500
QuestionExecExits(ok) ==
  /\ pc = "questionExec"
  /\ response' = IF ok THEN Json(200, TRUE, "question") ELSE Json(500, FALSE, "none")
  /\ resultText' = IF ok THEN Stdout(executed[Len(executed)].text) ELSE resultText
  /\ IF ok
     THEN /\ Send([command |-> command, interpretation |-> interp.interpretation,
                   result |-> resultText', type |-> "question", success |-> TRUE])
          /\ caught' = caught
     ELSE Catch(Error(Undefined))
  /\ pc' = "done"
  /\ UNCHANGED <<config, request, analysis, architectResult, execVars, reached,
                 interp, mcpsVars, executed>>
  /\ UNCHANGED <<provider, posts, providerError, stages, backendA, backendB,
                 timer>>
  /\ UNCHANGED childVars
  /\ UNCHANGED registryVars

\* the interpreted command of a simple request ended
SimpleExecExits(ok) ==
  /\ pc = "simpleExec"
  /\ response' = IF ok THEN Json(200, TRUE, "simple") ELSE Json(500, FALSE, "none")
  /\ resultText' = IF ok THEN Stdout(executed[Len(executed)].text) ELSE resultText
  /\ IF ok
     THEN /\ Send([command |-> command, interpretation |-> interp.interpretation,
                   result |-> resultText', type |-> "simple", success |-> TRUE])
          /\ caught' = caught
     ELSE Catch(Error(Undefined))
  /\ pc' = "done"
  /\ UNCHANGED <<config, request, analysis, architectResult, execVars, reached,
                 interp, mcpsVars, executed>>
  /\ UNCHANGED <<provider, posts, providerError, stages, backendA, backendB,
                 timer>>
  /\ UNCHANGED childVars
  /\ UNCHANGED registryVars

\* queryAIForSteps: AI_CONFIG.providers[provider] is read without a check, the
\* Authorization header is built from its api_key whatever it holds, and the
\* POST is issued
McpsQueryPosts ==
  /\ pc = "mcpsQuery"
  /\ provider # "unknown"
  /\ posts' = Append(posts, Post("queryAIForSteps", provider, ConfigKey(provider)))
  /\ pc' = "mcpsPost"
  /\ UNCHANGED <<config, request, analysis, architectResult, execVars, reached,
                 interp, mcpsVars, response>>
  /\ UNCHANGED <<resultText, executed, provider, providerError, stages, backendA,
                 backendB, timer>>
  /\ UNCHANGED httpVars
  /\ UNCHANGED childVars
  /\ UNCHANGED registryVars

\* queryAIForSteps returned n lines
McpsQueryReturns(n) ==
  /\ pc = "mcpsPost"
  /\ mcpsLines' = n
  /\ mcpsResults' = <<>>
  /\ pc' = "mcpsLoop"
  /\ UNCHANGED <<config, request, analysis, architectResult, execVars, reached,
                 interp, response>>
  /\ UNCHANGED callVars
  /\ UNCHANGED httpVars
  /\ UNCHANGED childVars
  /\ UNCHANGED registryVars

\* queryAIForSteps threw, on reading api_key of an unknown provider or on the
\* POST: the catch block answers 500
McpsQueryThrows(message) ==
  /\ \/ pc = "mcpsQuery" /\ provider = "unknown" /\ message = "other"
     \/ pc = "mcpsPost"
  /\ response' = Json(500, FALSE, "none")
  /\ Catch(Error(message))
  /\ pc' = "done"
  /\ UNCHANGED <<config, request, analysis, architectResult, execVars, reached,
                 interp, mcpsVars>>
  /\ UNCHANGED callVars
  /\ UNCHANGED childVars
  /\ UNCHANGED registryVars

\* line i of the array queryAIForSteps returned
McpsLine(i) == [prog |-> "line", arg |-> <<i>>]

\* `for (const step of steps)`: the lines the loop has taken so far
McpsIndex == Len(SelectSeq(executed, LAMBDA r : r.what = "mcps"))

\* results.push({command: step, output}) of the try block and of the catch
\* block of the loop
McpsPushOnlyOk(res, i, ok) ==
  IF ok THEN Append(res, [command |-> i, ok |-> ok]) ELSE res
McpsPush(res, i, ok) == Append(res, [command |-> i, ok |-> ok])

\* the MCPS loop runs the next line
McpsStepStart ==
  /\ pc = "mcpsLoop"
  /\ McpsIndex < mcpsLines
  /\ reached' = reached \cup {"CommandRunner"}
  /\ executed' = Append(executed, Ran("mcps", McpsLine(McpsIndex + 1)))
  /\ pc' = "mcpsStepWait"
  /\ UNCHANGED <<config, request, analysis, architectResult, execVars, interp,
                 mcpsVars, response, resultText>>
  /\ UNCHANGED <<provider, posts, providerError, stages, backendA, backendB,
                 timer>>
  /\ UNCHANGED httpVars
  /\ UNCHANGED childVars
  /\ UNCHANGED registryVars

\* the command of the line ended: its output or its error is pushed
McpsStepExits(ok) ==
  /\ pc = "mcpsStepWait"
  /\ mcpsResults' = McpsPush(mcpsResults, McpsIndex, ok)
  /\ pc' = "mcpsLoop"
  /\ UNCHANGED <<config, request, analysis, architectResult, execVars, reached,
                 interp, mcpsLines, response>>
  /\ UNCHANGED callVars
  /\ UNCHANGED httpVars
  /\ UNCHANGED childVars
  /\ UNCHANGED registryVars

\* the MCPS loop is through the lines
McpsRespond ==
  /\ pc = "mcpsLoop"
  /\ McpsIndex = mcpsLines
  /\ response' = Json(200, TRUE, "mcps")
  /\ Send([command |-> command, interpretation |-> interp.interpretation,
           steps |-> mcpsResults, type |-> "mcps", success |-> TRUE])
  /\ pc' = "done"
  /\ UNCHANGED <<config, request, analysis, architectResult, execVars, reached,
                 interp, mcpsVars>>
  /\ UNCHANGED callVars
  /\ UNCHANGED caught
  /\ UNCHANGED childVars
  /\ UNCHANGED registryVars

\* ------------------------------------------------------------------ FazAIDaemon.processCommand
\* processCommand: a question goes to processSimpleQuestion; for any other
\* request the call this.isSystemCommand(command) is made, a method the class
\* does not define, and the TypeError is rethrown by the catch block
ProcessCommand(cmd) ==
  /\ pc = "idle"
  /\ entry' = "processCommand"
  /\ command' = cmd
  /\ IF IsQuestion(cmd)
     THEN /\ pc' = "simpleQuestion"
          /\ reached' = reached \cup {"CommandRunner"}
          /\ executed' = Append(executed, Ran("question", EchoOf(StripMarkers(cmd))))
          /\ response' = response
     ELSE /\ pc' = "done"
          /\ reached' = reached
          /\ executed' = executed
          /\ response' = Thrown("TypeError")
  /\ UNCHANGED <<config, mcps, analysis, architectResult, execVars, interp, mcpsVars,
                 resultText>>
  /\ UNCHANGED <<provider, posts, providerError, stages, backendA, backendB,
                 timer>>
  /\ UNCHANGED httpVars
  /\ UNCHANGED childVars
  /\ UNCHANGED registryVars

\* the exec callback of processSimpleQuestion: stdout.trim() is resolved
SimpleQuestionExits(ok) ==
  /\ pc = "simpleQuestion"
  /\ response' = IF ok THEN Returned("question") ELSE Thrown("exec")
  /\ resultText' = IF ok THEN Trim(Stdout(executed[Len(executed)].text)) ELSE resultText
  /\ pc' = "done"
  /\ UNCHANGED <<config, request, analysis, architectResult, execVars, reached,
                 interp, mcpsVars, executed>>
  /\ UNCHANGED <<provider, posts, providerError, stages, backendA, backendB,
                 timer>>
  /\ UNCHANGED httpVars
  /\ UNCHANGED childVars
  /\ UNCHANGED registryVars

\* ------------------------------------------------------------------ ArchitectureSystem
\* processComplexCommand: tryGenaiscript first
ProcessComplexCommand(cmd) ==
  /\ pc = "idle"
  /\ entry' = "processComplexCommand"
  /\ command' = cmd
  /\ reached' = reached \cup {"PlanArchitect"}
  /\ \E exists \in BOOLEAN :
       IF exists
       THEN /\ pc' = "genaiscriptSpawned"
            /\ backendA' \in ChildStates
            /\ timer' = [timer EXCEPT !["A"] = "armed"]
            /\ child' = [child EXCEPT !["A"] = "alive"]
       ELSE /\ pc' = "tryDeepseekHelper"
            /\ backendA' = "absent"
            /\ timer' = timer
            /\ child' = child
  /\ UNCHANGED <<config, mcps, analysis, architectResult, execVars, interp,
                 mcpsVars, response>>
  /\ UNCHANGED <<queryVars, backendB>>
  /\ UNCHANGED httpVars
  /\ UNCHANGED registryVars

\* a backend's promise resolved with a parsed plan: executeArchitecture is next
ArchitectureObtained(p, method) ==
  /\ architectResult' = [success |-> TRUE, isArchitected |-> TRUE,
                         method |-> method, interpretation |-> p, content |-> <<>>]
  /\ pc' = "executeArchitecture"
  /\ UNCHANGED <<config, request, analysis, execVars, reached, interp, mcpsVars,
                 response>>

\* tryGenaiscript resolved null: tryDeepseekHelper is next
GenaiscriptNull ==
  /\ pc' = "tryDeepseekHelper"
  /\ UNCHANGED <<config, request, analysis, architectResult, execVars, reached,
                 interp, mcpsVars, response>>

\* JSON.parse throws inside the 'close' listener of the child: no try block is
\* on the stack of the listener and no uncaughtException handler is
\* registered, so the daemon process ends
Crashed == [kind |-> "exit", status |-> 1, success |-> FALSE, type |-> "uncaughtException"]

ParseThrows ==
  /\ response' = Crashed
  /\ pc' = "crashed"
  /\ UNCHANGED <<config, request, analysis, architectResult, execVars, reached,
                 interp, mcpsVars>>

\* tryGenaiscript: the child closed with code 0 and a JSON plan on stdout
GenaiscriptCloses(p) ==
  /\ pc = "genaiscriptSpawned"
  /\ backendA = "running"
  /\ backendA' = Resolve(backendA, "plan")
  /\ child' = [child EXCEPT !["A"] = "closed"]
  /\ ArchitectureObtained(p, "genaiscript")
  /\ UNCHANGED <<queryVars, backendB, timer>>
  /\ UNCHANGED httpVars
  /\ UNCHANGED registryVars

\* tryGenaiscript: the child closed with code 0 and stdout that is no JSON
GenaiscriptClosesBadJson ==
  /\ pc = "genaiscriptSpawned"
  /\ backendA = "running"
  /\ backendA' = "badjson"
  /\ child' = [child EXCEPT !["A"] = "closed"]
  /\ ParseThrows
  /\ UNCHANGED <<queryVars, backendB, timer>>
  /\ UNCHANGED httpVars
  /\ UNCHANGED registryVars

\* tryGenaiscript: the child closed with another code
GenaiscriptClosesNonZero ==
  /\ pc = "genaiscriptSpawned"
  /\ backendA = "running"
  /\ backendA' = Resolve(backendA, "nonzero")
  /\ child' = [child EXCEPT !["A"] = "closed"]
  /\ GenaiscriptNull
  /\ UNCHANGED <<queryVars, backendB, timer>>
  /\ UNCHANGED httpVars
  /\ UNCHANGED registryVars

\* tryGenaiscript: the 30 s timer fired first: kill, resolve(null)
GenaiscriptTimeout ==
  /\ pc = "genaiscriptSpawned"
  /\ timer["A"] = "armed"
  /\ backendA' = Resolve(backendA, "timeout")
  /\ timer' = [timer EXCEPT !["A"] = "fired"]
  /\ GenaiscriptNull
  /\ UNCHANGED <<queryVars, backendB>>
  /\ UNCHANGED httpVars
  /\ UNCHANGED childVars
  /\ UNCHANGED registryVars

\* tryDeepseekHelper resolved null, or the helper is not on disk: no
\* architecture, processComplexCommand throws
NoArchitecture ==
  /\ response' = Thrown("Falha ao arquitetar comando")
  /\ pc' = "done"
  /\ UNCHANGED <<config, request, analysis, architectResult, execVars, reached,
                 interp, mcpsVars>>

\* tryDeepseekHelper: the helper is spawned when it exists on disk
TryDeepseekHelper ==
  /\ pc = "tryDeepseekHelper"
  /\ \E exists \in BOOLEAN :
       IF exists
       THEN /\ pc' = "helperSpawned"
            /\ backendB' \in ChildStates
            /\ timer' = [timer EXCEPT !["B"] = "armed"]
            /\ child' = [child EXCEPT !["B"] = "alive"]
            /\ UNCHANGED <<config, request, analysis, architectResult, execVars,
                           reached, interp, mcpsVars, response>>
       ELSE /\ backendB' = "absent"
            /\ timer' = timer
            /\ child' = child
            /\ NoArchitecture
  /\ UNCHANGED <<queryVars, backendA>>
  /\ UNCHANGED httpVars
  /\ UNCHANGED registryVars

\* tryDeepseekHelper: the child closed with code 0 and a JSON plan on stdout
HelperCloses(p) ==
  /\ pc = "helperSpawned"
  /\ backendB = "running"
  /\ backendB' = Resolve(backendB, "plan")
  /\ child' = [child EXCEPT !["B"] = "closed"]
  /\ ArchitectureObtained(p, "deepseek")
  /\ UNCHANGED <<queryVars, backendA, timer>>
  /\ UNCHANGED httpVars
  /\ UNCHANGED registryVars

\* tryDeepseekHelper: the child closed with code 0 and stdout that is no JSON
HelperClosesBadJson ==
  /\ pc = "helperSpawned"
  /\ backendB = "running"
  /\ backendB' = "badjson"
  /\ child' = [child EXCEPT !["B"] = "closed"]
  /\ ParseThrows
  /\ UNCHANGED <<queryVars, backendA, timer>>
  /\ UNCHANGED httpVars
  /\ UNCHANGED registryVars

\* tryDeepseekHelper: the child closed with another code
HelperClosesNonZero ==
  /\ pc = "helperSpawned"
  /\ backendB = "running"
  /\ backendB' = Resolve(backendB, "nonzero")
  /\ child' = [child EXCEPT !["B"] = "closed"]
  /\ NoArchitecture
  /\ UNCHANGED <<queryVars, backendA, timer>>
  /\ UNCHANGED httpVars
  /\ UNCHANGED registryVars

\* tryDeepseekHelper: the 30 s timer fired first
HelperTimeout ==
  /\ pc = "helperSpawned"
  /\ timer["B"] = "armed"
  /\ backendB' = Resolve(backendB, "timeout")
  /\ timer' = [timer EXCEPT !["B"] = "fired"]
  /\ NoArchitecture
  /\ UNCHANGED <<queryVars, backendA>>
  /\ UNCHANGED httpVars
  /\ UNCHANGED childVars
  /\ UNCHANGED registryVars

\* what a close event that arrives after the timeout can carry: code 0 with
\* a JSON plan, another code (the killed child), code 0 with no JSON
LateValues == {"plan", "nonzero", "badjson"}

\* the 30 s timer of tryGenaiscript fires after the close event settled the
\* promise (the timer is never cleared): child.kill() on an exited child,
\* resolve(null) on a settled promise
GenaiscriptLateTimeout ==
  /\ pc # "crashed"
  /\ timer["A"] = "armed"
  /\ child["A"] = "closed"
  /\ timer' = [timer EXCEPT !["A"] = "fired"]
  /\ backendA' = Resolve(backendA, "timeout")
  /\ UNCHANGED <<config, request, analysis, architectResult, execVars, reached,
                 interp, mcpsVars, response, pc>>
  /\ UNCHANGED <<queryVars, backendB>>
  /\ UNCHANGED httpVars
  /\ UNCHANGED childVars
  /\ UNCHANGED registryVars

\* the close event of the child of tryGenaiscript arrives after the timer
\* settled the promise: the listener resolves with the parsed stdout when the
\* child still exited with code 0, with null when it was killed
GenaiscriptLateClose(value) ==
  /\ pc # "crashed"
  /\ timer["A"] = "fired"
  /\ child["A"] = "alive"
  /\ child' = [child EXCEPT !["A"] = "closed"]
  /\ IF value = "badjson"
     THEN /\ backendA' = backendA
          /\ ParseThrows
     ELSE /\ backendA' = Resolve(backendA, value)
          /\ UNCHANGED <<config, request, analysis, architectResult, execVars,
                         reached, interp, mcpsVars, response, pc>>
  /\ UNCHANGED <<queryVars, backendB, timer>>
  /\ UNCHANGED httpVars
  /\ UNCHANGED registryVars

\* the same two late events of tryDeepseekHelper
HelperLateTimeout ==
  /\ pc # "crashed"
  /\ timer["B"] = "armed"
  /\ child["B"] = "closed"
  /\ timer' = [timer EXCEPT !["B"] = "fired"]
  /\ backendB' = Resolve(backendB, "timeout")
  /\ UNCHANGED <<config, request, analysis, architectResult, execVars, reached,
                 interp, mcpsVars, response, pc>>
  /\ UNCHANGED <<queryVars, backendA>>
  /\ UNCHANGED httpVars
  /\ UNCHANGED childVars
  /\ UNCHANGED registryVars

HelperLateClose(value) ==
  /\ pc # "crashed"
  /\ timer["B"] = "fired"
  /\ child["B"] = "alive"
  /\ child' = [child EXCEPT !["B"] = "closed"]
  /\ IF value = "badjson"
     THEN /\ backendB' = backendB
          /\ ParseThrows
     ELSE /\ backendB' = Resolve(backendB, value)
          /\ UNCHANGED <<config, request, analysis, architectResult, execVars,
                         reached, interp, mcpsVars, response, pc>>
  /\ UNCHANGED <<queryVars, backendA, timer>>
  /\ UNCHANGED httpVars
  /\ UNCHANGED registryVars

\* executeArchitecture entered: const steps = architecture.steps || []
ExecuteArchitecture ==
  /\ pc = "executeArchitecture"
  /\ plan' = architectResult.interpretation
  /\ results' = <<>>
  /\ execStatus' = "running"
  /\ reached' = reached \cup {"PlanExecutor"}
  /\ pc' = "archLoop"
  /\ UNCHANGED <<config, request, analysis, architectResult, idx, running, started,
                 pushed, exits, halted, interp, mcpsVars, response>>
  /\ UNCHANGED callVars
  /\ UNCHANGED httpVars
  /\ UNCHANGED childVars
  /\ UNCHANGED registryVars

\* `await this.executeStep(step, options)`
ArchAwait == "archStepWait"

\* if (!result.success && step.critical) break;   -- result.success is false here
ArchBreaksAlways(step) == TRUE

ArchBreaks(step) == step.critical

\* executeStep without a command: the error is caught and returned as a result
NoCommandThrown == "thrown"

NoCommandOutcome == "result"

\* results.push of a failed result, then the break test
ArchStepFailed(i, how) ==
  /\ results' = Append(results, Push(i, FALSE))
  /\ pushed' = Append(pushed, Push(i, FALSE))
  /\ exits' = Append(exits, how)
  /\ IF ArchBreaks(plan.steps[i])
     THEN /\ halted' = "critical"
          /\ execStatus' = "returned"
          /\ response' = Returned("architecture")
          /\ pc' = "done"
     ELSE /\ halted' = halted
          /\ execStatus' = execStatus
          /\ response' = response
          /\ pc' = "archLoop"

\* the loop takes up the next step, which has a command: exec runs it
ArchStepStart ==
  /\ pc = "archLoop"
  /\ idx < Len(plan.steps)
  /\ plan.steps[idx + 1].form = "object"
  /\ plan.steps[idx + 1].command
  /\ idx' = idx + 1
  /\ started' = Append(started, idx + 1)
  /\ running' = running \cup {idx + 1}
  /\ reached' = reached \cup {"CommandRunner"}
  /\ pc' = ArchAwait
  /\ UNCHANGED <<config, request, analysis, architectResult, plan, results, pushed,
                 exits, halted, execStatus, interp, mcpsVars, response>>
  /\ UNCHANGED callVars
  /\ UNCHANGED httpVars
  /\ UNCHANGED childVars
  /\ UNCHANGED registryVars

\* the loop takes up the next step, which has no command property (an object
\* without one, or a string): executeStep returns {success: false, error}
ArchStepNoCommand ==
  /\ pc = "archLoop"
  /\ idx < Len(plan.steps)
  /\ ~(plan.steps[idx + 1].form = "object" /\ plan.steps[idx + 1].command)
  /\ idx' = idx + 1
  /\ started' = Append(started, idx + 1)
  /\ IF NoCommandOutcome = "thrown"
     THEN /\ execStatus' = "thrown"
          /\ response' = Thrown("Comando nao especificado no passo")
          /\ pc' = "done"
          /\ UNCHANGED <<results, pushed, exits, halted>>
     ELSE ArchStepFailed(idx + 1, "nocommand")
  /\ UNCHANGED <<config, request, analysis, architectResult, plan, running, reached,
                 interp, mcpsVars>>
  /\ UNCHANGED callVars
  /\ UNCHANGED httpVars
  /\ UNCHANGED childVars
  /\ UNCHANGED registryVars

\* the command of the step exits with status 0
ArchStepSucceeds ==
  /\ pc = "archStepWait"
  /\ running' = running \ {idx}
  /\ results' = Append(results, Push(idx, TRUE))
  /\ pushed' = Append(pushed, Push(idx, TRUE))
  /\ exits' = Append(exits, "ok")
  /\ pc' = "archLoop"
  /\ UNCHANGED <<config, request, analysis, architectResult, plan, idx, started,
                 halted, execStatus, reached, interp, mcpsVars, response>>
  /\ UNCHANGED callVars
  /\ UNCHANGED httpVars
  /\ UNCHANGED childVars
  /\ UNCHANGED registryVars

\* the command of the step fails: executeStep resolves {success: false, ...}
ArchStepFails ==
  /\ pc = "archStepWait"
  /\ running' = running \ {idx}
  /\ ArchStepFailed(idx, "error")
  /\ UNCHANGED <<config, request, analysis, architectResult, plan, idx, started,
                 reached, interp, mcpsVars>>
  /\ UNCHANGED callVars
  /\ UNCHANGED httpVars
  /\ UNCHANGED childVars
  /\ UNCHANGED registryVars

\* the loop is through the steps
ArchReturn ==
  /\ pc = "archLoop"
  /\ idx = Len(plan.steps)
  /\ halted' = "end"
  /\ execStatus' = "returned"
  /\ response' = Returned("architecture")
  /\ pc' = "done"
  /\ UNCHANGED <<config, request, analysis, architectResult, plan, idx, results,
                 running, started, pushed, exits, reached, interp, mcpsVars>>
  /\ UNCHANGED callVars
  /\ UNCHANGED httpVars
  /\ UNCHANGED childVars
  /\ UNCHANGED registryVars

\* ------------------------------------------------------------------ specification
Next ==
  \/ pc = "idle" /\ \E cmd \in Requests, m \in BOOLEAN : PostCommand(cmd, m)
  \/ QueryAI
  \/ ArchitectCommand
  \/ pc = "genaiscript" /\ \E p \in Plans : GenaiscriptPlan(p)
  \/ \E kind \in {"nonzero", "badjson"} : GenaiscriptFails(kind)
  \/ pc = "fallbackToDeepseek" /\ \E p \in Plans : DeepseekPlan(p)
  \/ pc = "fallbackToDeepseek" /\
       \E lines \in SeqsUpTo(LineValues, MaxLines) : DeepseekText(lines)
  \/ DeepseekFails
  \/ ExecutePlan
  \/ PlanStepStart
  \/ PlanStepRejected
  \/ PlanStepSucceeds
  \/ PlanStepFails
  \/ PlanReturn
  \/ QueryProviderPosts
  \/ QueryProviderThrows
  \/ ProviderAnswers
  \/ ProviderPostFails
  \/ \E ok \in BOOLEAN : StandaloneHelperExits(ok)
  \/ \E how \in {"success", "failure", "throws"} : DeepseekFallbackReturns(how)
  \/ Handler
  \/ \E ok \in BOOLEAN : QuestionExecExits(ok)
  \/ \E ok \in BOOLEAN : SimpleExecExits(ok)
  \/ \E n \in 0..MaxSteps : McpsQueryReturns(n)
  \/ \E message \in Messages : McpsQueryThrows(message)
  \/ McpsQueryPosts
  \/ McpsStepStart
  \/ \E ok \in BOOLEAN : McpsStepExits(ok)
  \/ McpsRespond
  \/ pc = "idle" /\ \E cmd \in Requests : ProcessCommand(cmd)
  \/ \E ok \in BOOLEAN : SimpleQuestionExits(ok)
  \/ pc = "idle" /\ \E cmd \in ComplexRequests : ProcessComplexCommand(cmd)
  \/ pc = "genaiscriptSpawned" /\ \E p \in Plans : GenaiscriptCloses(p)
  \/ GenaiscriptClosesNonZero
  \/ GenaiscriptTimeout
  \/ GenaiscriptClosesBadJson
  \/ HelperClosesBadJson
  \/ TryDeepseekHelper
  \/ pc = "helperSpawned" /\ \E p \in Plans : HelperCloses(p)
  \/ HelperClosesNonZero
  \/ HelperTimeout
  \/ GenaiscriptLateTimeout
  \/ \E value \in LateValues : GenaiscriptLateClose(value)
  \/ HelperLateTimeout
  \/ \E value \in LateValues : HelperLateClose(value)
  \/ ExecuteArchitecture
  \/ ArchStepStart
  \/ ArchStepNoCommand
  \/ ArchStepSucceeds
  \/ ArchStepFails
  \/ ArchReturn

Spec == Init /\ [][Next]_vars

\* The event loop runs every callback that is ready, and an external call
\* that completes or fails has its callback ready: a step that stays
\* possible is taken.  A backend process that never exits is the state
\* "hung", in which no step of the request is possible.
FairSpec == Spec /\ WF_vars(Next)

\* ------------------------------------------------------------------ the classifier alone
\* every string over the alphabet up to MaxLen characters is classified
InitClassify ==
  /\ Init
  /\ continue_on_error
  /\ enable_fallback

AnalyzeCommand(cmd) ==
  /\ pc = "idle"
  /\ entry' = "analyzeCommand"
  /\ command' = cmd
  /\ analysis' = analyzeCommand(cmd)
  /\ pc' = "classified"
  /\ UNCHANGED <<config, mcps, architectResult, execVars, reached, interp, mcpsVars,
                 response>>
  /\ UNCHANGED callVars
  /\ UNCHANGED httpVars
  /\ UNCHANGED childVars
  /\ UNCHANGED registryVars

NextClassify ==
  /\ pc = "idle"
  /\ \E cmd \in SeqsUpTo(Alphabet, MaxLen) : AnalyzeCommand(cmd)

SpecClassify == InitClassify /\ [][NextClassify]_vars

\* ------------------------------------------------------------------ POST /reload
\* the handler is synchronous: the cleanup loop, loadTools() and
\* loadNativeModules() run to the end before any other callback
Reload ==
  /\ pc # "crashed"
  /\ loads <= MaxReloads
  /\ loads' = loads + 1
  /\ lifecycle' = InitCalls(CleanupCalls(lifecycle, loadedMods), MODS_DIR)
  /\ cleanups' = [m \in Mods |->
                    IF MODS_DIR[m] = "ok" THEN 0
                    ELSE IF m \in Keys(loadedMods) THEN cleanups[m] + 1
                    ELSE cleanups[m]]
  /\ loadedTools' = loadTools(loadedTools, TOOLS_DIR, isTTY, loads')
  /\ loadedMods' = loadNativeModules(loadedMods, MODS_DIR, loads')
  /\ UNCHANGED <<MODS_DIR, TOOLS_DIR, isTTY>>
  /\ UNCHANGED <<config, request, analysis, architectResult, execVars, reached,
                 interp, mcpsVars, response, pc>>
  /\ UNCHANGED callVars
  /\ UNCHANGED httpVars
  /\ UNCHANGED childVars

\* a .so file is added, replaced or removed between two reads of the directory
ModFileChanges(m, file) ==
  /\ MODS_DIR[m] # file
  /\ MODS_DIR' = [MODS_DIR EXCEPT ![m] = file]
  /\ UNCHANGED <<TOOLS_DIR, isTTY, loadedMods, loadedTools, lifecycle, cleanups, loads>>
  /\ UNCHANGED <<config, request, analysis, architectResult, execVars, reached,
                 interp, mcpsVars, response, pc>>
  /\ UNCHANGED callVars
  /\ UNCHANGED httpVars
  /\ UNCHANGED childVars

\* a plugin file is added, replaced or removed
ToolFileChanges(t, file) ==
  /\ TOOLS_DIR[t] # file
  /\ TOOLS_DIR' = [TOOLS_DIR EXCEPT ![t] = file]
  /\ UNCHANGED <<MODS_DIR, isTTY, loadedMods, loadedTools, lifecycle, cleanups, loads>>
  /\ UNCHANGED <<config, request, analysis, architectResult, execVars, reached,
                 interp, mcpsVars, response, pc>>
  /\ UNCHANGED callVars
  /\ UNCHANGED httpVars
  /\ UNCHANGED childVars

\* reloads while a request is in flight: the request is in flight from
\* PostCommand on, and no later step of it reads or writes a registry
NextReload ==
  \/ pc = "idle" /\ \E cmd \in Requests, m \in BOOLEAN : PostCommand(cmd, m)
  \/ Reload
  \/ \E m \in Mods, file \in ModFiles : ModFileChanges(m, file)
  \/ \E t \in Tools, file \in ToolFiles : ToolFileChanges(t, file)

SpecReload == InitReload /\ [][NextReload]_vars

\* ------------------------------------------------------------------ properties
\* a required_info list that is present and has entries
InfoNonEmpty(info) == info.defined /\ info.items # <<>>

\* the executor has been entered for the request
ExecutorEntered == execStatus # "none"

\* the steps of the plan whose result is a failure
FailedSteps == {i \in 1..Len(results) : ~results[i].success}

\* C1: a plan with needs_agent set and a non-empty required_info list handed to
\* executePlan has none of its steps run: no step is taken up, the command
\* runner is not invoked, and the value returned carries requires_interaction,
\* the plan and the required-info list, which the handler answers as interactive.
C1_InteractionRunsNoStep ==
  (entry = "command" /\ ExecutorEntered
     /\ plan.needs_agent /\ InfoNonEmpty(plan.required_info))
  => /\ execStatus = "interaction"
     /\ started = <<>> /\ running = {} /\ results = <<>>
     /\ "CommandRunner" \notin reached
     /\ interp.requires_interaction
     /\ interp.plan = plan
     /\ interp.required_info = plan.required_info
     /\ (pc = "done" => response = Json(200, TRUE, "interactive"))

C1_Witness ==
  /\ entry = "command" /\ pc = "done"
  /\ execStatus = "interaction"
  /\ plan.needs_agent /\ InfoNonEmpty(plan.required_info)
  /\ Len(plan.steps) = MaxSteps

\* C2: whenever the architected plan has a non-empty required_info list, no
\* step of it is executed on any path, whatever needs_agent says: no command
\* of a step is ever run.
C2_RequiredInfoNeverExecuted ==
  (architectResult.success /\ InfoNonEmpty(architectResult.interpretation.required_info))
  => /\ running = {}
     /\ \A i \in 1..Len(exits) : exits[i] \notin {"ok", "error"}

\* C3: the steps of a plan are executed one at a time in index order: the steps
\* taken up are 1, 2, ... in that order, step i+1 is taken up only when the
\* result of step i has been pushed, and at most one command is in flight.
C3_StrictlySequential ==
  /\ Cardinality(running) <= 1
  /\ \A k \in 1..Len(started) : started[k] = k
  /\ Len(started) = idx
  /\ running \subseteq {Len(started)}
  /\ Len(results) = Len(started) - Cardinality(running)

C3_Witness ==
  /\ Len(started) = 2 /\ running = {2} /\ Len(results) = 1
  /\ entry = "processComplexCommand"

\* C4: in both executors a failed step whose critical flag is set ends the
\* iteration whatever continue_on_error says: it is the last entry of the
\* results and no later step is taken up.
C4_CriticalFailureStops ==
  \A i \in FailedSteps :
    plan.steps[i].critical => (i = Len(results) /\ Len(started) = i)

C6_NonCriticalFailureContinues ==
  continue_on_error =>
    /\ \A i \in 1..Len(results) : results[i].success = (exits[i] = "ok")
    /\ (execStatus = "returned" /\ \A i \in FailedSteps : ~plan.steps[i].critical)
         => Len(results) = Len(plan.steps)
    /\ \A i \in FailedSteps :
         (~plan.steps[i].critical /\ i < Len(plan.steps) /\ i = Len(results))
           => execStatus = "running"

C6_Witness ==
  /\ continue_on_error
  /\ execStatus = "returned"
  /\ Len(results) = 2 /\ Len(plan.steps) = 2
  /\ ~results[1].success /\ ~plan.steps[1].critical /\ exits[1] = "error"
  /\ results[2].success

\* the results are a prefix image of plan.steps: entry i is the result of step
\* i, the entries are those pushed, in the order pushed, and never more than
\* the steps
ResultsArePrefix ==
  /\ results = pushed
  /\ \A i \in 1..Len(results) : results[i].step = i
  /\ Len(results) <= Len(plan.steps)

C8_StepFailureNotThrown ==
  /\ execStatus # "thrown"
  /\ (ExecutorEntered /\ FailedSteps # {}) => response.kind # "throw"
  /\ (execStatus = "returned" /\ entry = "command")
       => /\ interp.success /\ interp.execution_results
          /\ (pc = "done" => response = Json(200, TRUE, "architected"))
  /\ (execStatus = "returned" /\ entry = "processComplexCommand" /\ pc # "crashed")
       => /\ pc = "done"
          /\ response = Returned("architecture")

C8_Witness ==
  /\ entry = "processComplexCommand"
  /\ execStatus = "returned"
  /\ halted = "critical"
  /\ Len(results) = 1 /\ Len(plan.steps) = 2
  /\ exits[1] = "nocommand"
  /\ response = Returned("architecture")

\* the words of a request: its maximal runs of characters that are not white
\* space
NumWords(s) ==
  Cardinality({i \in 1..Len(s) : ~IsWs(s[i]) /\ (i = 1 \/ IsWs(s[i - 1]))})

\* C9: every request string is classified: isQuestion exactly when it starts
\* with '_' and ends with '?', isComplex exactly when it has more than 4 words
\* and is no question; the two never hold together and a request without any
\* word is simple.
C9_Classification ==
  pc = "classified" =>
    /\ analysis.isQuestion
         <=> (command # <<>> /\ Head(command) = "_" /\ command[Len(command)] = "?")
    /\ analysis.isComplex <=> (NumWords(command) > 4 /\ ~analysis.isQuestion)
    /\ ~(analysis.isQuestion /\ analysis.isComplex)
    /\ (NumWords(command) = 0 => ~analysis.isQuestion /\ ~analysis.isComplex)

C9_Witness ==
  /\ pc = "classified"
  /\ analysis.isQuestion /\ ~analysis.isComplex
  /\ NumWords(command) > 4

\* C10: a request goes through exactly one branch: a question reaches neither
\* the architect nor the provider, a complex request reaches neither the
\* provider query nor its fallback chain, even when architecting failed, and a
\* simple request does not reach the architect.
C10_ExactlyOneBranch ==
  (entry = "command" /\ pc \notin {"idle", "queryAI"} /\ command # <<>>)
  => /\ analysis.isQuestion
          => reached \cap {"PlanArchitect", "ProviderGateway", "FallbackChain"} = {}
     /\ analysis.isComplex
          => reached \cap {"ProviderGateway", "FallbackChain"} = {}
     /\ (~analysis.isQuestion /\ ~analysis.isComplex)
          => "PlanArchitect" \notin reached

\* ------------------------------------------------------------------ C11
AIBackends == {"ProviderGateway", "FallbackChain", "PlanArchitect"}

\* the request handled is a question and its one command succeeded
QuestionAnswered ==
  /\ entry \in {"command", "processCommand"}
  /\ IsQuestion(command)
  /\ pc = "done"
  /\ response.success

\* C11: a question request runs exactly one shell command, the echo of the
\* request without its first and last character, and the result is that
\* command's stdout as it is, trailing newline included, in a result of type
\* question; no AI backend is contacted.
C11_QuestionEchoUnmodified ==
  QuestionAnswered =>
    /\ executed = <<Ran("question", EchoOf(StripMarkers(command)))>>
    /\ resultText = StripMarkers(command) \o <<"\n">>
    /\ response.type = "question"
    /\ reached \cap AIBackends = {}

\* ------------------------------------------------------------------ C12
\* the provider query of a simple request succeeded
ProviderInterpreted == entry = "command" /\ interp.kind = "provider" /\ interp.success

\* the interpretation text was handed to the shell
InterpretationRan ==
  \E i \in 1..Len(executed) : executed[i].text = interp.interpretation

\* C12 as stated: for a simple request whose provider query succeeds, with
\* mcps false or absent no command with the text of the interpretation is
\* ever run.
C12_InterpretationNotExecuted ==
  (ProviderInterpreted /\ ~mcps) => ~InterpretationRan

\* C12 amended: for a simple request whose provider query succeeds, with mcps
\* false or absent the interpretation text is the one command run for the
\* request; with mcps=true the interpretation itself is never run, only the
\* lines of the step-list query are.
C12_InterpretationExecutedUnlessMcps ==
  ProviderInterpreted =>
    /\ mcps => ~InterpretationRan
    /\ (~mcps /\ pc \in {"simpleExec", "done"}) =>
         executed = <<Ran("simple", interp.interpretation)>>

C12_Witness ==
  /\ ProviderInterpreted
  /\ ~mcps
  /\ pc = "done"
  /\ response = Json(200, TRUE, "simple")
  /\ InterpretationRan

\* ------------------------------------------------------------------ C13
\* queryAI returned to the handler after the provider call failed
ProviderFailure == providerError # "none"
FallbackReturned == entry = "command" /\ ProviderFailure /\ pc \in {"handler", "done"}

StagesCalled == {stages[i].stage : i \in 1..Len(stages)}
StageSucceeded == \E i \in 1..Len(stages) : stages[i].outcome = "success"

\* C13: with the provider failed and fallback enabled the stages are tried in
\* order, the standalone helper first and then the in-process helper: a
\* failed standalone helper is followed by the in-process helper, a stage
\* that succeeds gives a result with success=true, and the degraded
\* interpretation with success=false is returned only when every stage failed.
C13_FallbackStagesInOrder ==
  (FallbackReturned /\ enable_fallback) =>
    /\ (\E i \in 1..Len(stages) :
          stages[i].stage = "standalone" /\ stages[i].outcome # "success")
         => \E j \in 1..Len(stages) : stages[j].stage = "inprocess"
    /\ StageSucceeded => interp.success
    /\ interp = DegradedResult => (~StageSucceeded /\ "inprocess" \in StagesCalled)

\* ------------------------------------------------------------------ C14
\* C14: a fallback stage is called only after the provider call of the same
\* request failed and with fallback enabled; when the provider fails with
\* fallback disabled the result is at once the degraded interpretation with
\* success=false.
C14_FallbackOnlyAfterProviderFailure ==
  /\ stages # <<>> => (ProviderFailure /\ enable_fallback)
  /\ (FallbackReturned /\ ~enable_fallback) =>
       (stages = <<>> /\ interp = DegradedResult /\ ~interp.success)

C14_Witness ==
  /\ FallbackReturned
  /\ ~enable_fallback
  /\ pc = "done"
  /\ response = Json(200, FALSE, "none")

\* ------------------------------------------------------------------ C15
\* the HTTP requests one provider call made
Attempts == Len(SelectSeq(posts, LAMBDA q : q.by = "queryProvider"))

\* C15: within one provider call a failed attempt is retried, the attempts
\* never exceed max_retries, and the error is surfaced only when the attempts
\* are exhausted.
C15_FailedAttemptRetried ==
  /\ Attempts <= max_retries
  /\ providerError = "post" => Attempts = max_retries

\* ------------------------------------------------------------------ C16
\* C16: a provider query fails without an HTTP request when the provider is
\* not registered or has no resolvable key: every POST issued is for a
\* registered provider for which a key can be resolved.
C16_PostOnlyWithProviderAndKey ==
  \A i \in 1..Len(posts) :
    /\ posts[i].provider # "unknown"
    /\ KeyResolved(posts[i].provider)

\* ------------------------------------------------------------------ C17
AFailures == {"nonzero", "badjson", "timeout"}
BInvoked == backendB # "untried"

\* C17: backend A is tried first when its artifact exists, and backend B is
\* invoked exactly when A is absent or failed: after each kind of failure of
\* A (non-zero exit, stdout that is no JSON, timeout) B is invoked, and B is
\* never invoked after A returned a plan.
C17_SecondaryIffPrimaryFailed ==
  /\ BInvoked => backendA \in AFailures \cup {"absent"}
  /\ backendA \in AFailures \cup {"absent"} => (BInvoked \/ pc = "tryDeepseekHelper")

\* ------------------------------------------------------------------ C18
\* C18: a backend A process that never exits does not block the request: on
\* every architecting path the wait for it has a timeout pending, whose
\* firing kills the process and hands over to backend B.
C18_HangingBackendTimesOut ==
  (pc \in {"genaiscript", "genaiscriptSpawned"} /\ backendA = "hung") => timer["A"] = "armed"

\* ------------------------------------------------------------------ C19
BFailures == {"absent", "failed", "nonzero", "badjson", "timeout"}
BothBackendsFailed == backendA \in AFailures \cup {"absent"} /\ backendB \in BFailures

\* C19: when both backends are unavailable or fail, architecting returns a
\* plan with exactly one step and success=false, and the request is answered
\* with an envelope: nothing is thrown and the plan is never null.
C19_FailedArchitectingDegrades ==
  BothBackendsFailed =>
    /\ architectResult.isArchitected
    /\ ~architectResult.success
    /\ Len(architectResult.interpretation.steps) = 1
    /\ response.kind \notin {"throw", "exit"}

\* ------------------------------------------------------------------ C20
\* backend B answered with text that is no JSON
TextPlanBuilt == architectResult.method = "deepseek_text"

\* a line with a character that is not white space
NonBlank(line) == \E i \in 1..Len(line) : ~IsWs(line[i])
StepTexts(p) == [i \in 1..Len(p.steps) |-> p.steps[i].text]
TextPlanSteps ==
  /\ StepTexts(architectResult.interpretation) = SelectSeq(architectResult.content, NonBlank)
  /\ architectResult.interpretation.complexity = "alta"
  /\ architectResult.success
  /\ \A i \in 1..Len(architectResult.interpretation.steps) :
       ~architectResult.interpretation.steps[i].critical

\* C20 as stated: the plan built from the text of backend B has one step per
\* non-empty line, in order, blank lines dropped, complexity high and
\* success=true; it is not marked as requiring an agent and its steps are
\* non-critical.
C20_TextPlanNoAgent ==
  TextPlanBuilt => (TextPlanSteps /\ ~architectResult.interpretation.needs_agent)

\* C20 amended: the same plan, marked as requiring an agent (needs_agent
\* true) and without a required_info list.
C20_TextPlanMarkedAgent ==
  TextPlanBuilt =>
    /\ TextPlanSteps
    /\ architectResult.interpretation.needs_agent
    /\ ~architectResult.interpretation.required_info.defined

\* two lines kept in order with a blank line dropped between or around them
C20_Witness ==
  /\ TextPlanBuilt
  /\ Len(architectResult.interpretation.steps) = 2
  /\ Len(architectResult.content) = 3
  /\ StepTexts(architectResult.interpretation) = << <<"a">>, <<" ", "a">> >>

\* ------------------------------------------------------------------ C22
ResponseTypes == {"question", "simple", "architected", "mcps", "interactive"}
Responded == entry = "command" /\ sent > 0

\* C22: every response to a command request is a uniform envelope: it carries
\* success, command and a type out of question, simple, architected, mcps,
\* interactive, and a response with success=false also carries error and
\* details.
C22_UniformEnvelope ==
  Responded =>
    /\ {"success", "command", "type"} \subseteq DOMAIN body
    /\ body.type \in ResponseTypes
    /\ ~body.success => {"error", "details"} \subseteq DOMAIN body

\* ------------------------------------------------------------------ C23
\* the handler answered from its catch block
FailureResponse == Responded /\ response.status = 500

\* C23: a failure response carries as its error the summary chosen by the
\* category of the error (API, network, command execution, or the default)
\* and not the raw message, and carries the raw message as details.
C23_FriendlySummary ==
  FailureResponse =>
    /\ body.error = friendlyMessage(caught)
    /\ "details" \in DOMAIN body
    /\ body.details = caught.message

\* ------------------------------------------------------------------ C28
\* C28: a request without a command is answered 400 with success=false before
\* anything else: it is never classified, no AI backend is called, nothing is
\* architected and no shell command is run.
C28_MissingCommandRejected ==
  (entry = "command" /\ command = <<>>) =>
    /\ pc = "done"
    /\ response = Json(400, FALSE, "none")
    /\ ~body.success
    /\ sent = 1
    /\ analysis = NoAnalysis
    /\ reached = {}
    /\ executed = <<>>
    /\ posts = <<>>
    /\ stages = <<>>
    /\ started = <<>>
    /\ backendA = "untried" /\ backendB = "untried"

C28_Witness ==
  /\ entry = "command"
  /\ command = <<>>
  /\ response.status = 400
  /\ sent = 1

\* ------------------------------------------------------------------ C25
\* the interaction case as section 4.4 has it: needsAgent and a required_info
\* list that is not empty
InteractionCase(p) == p.needs_agent /\ InfoNonEmpty(p.required_info)

\* C25: a plan that is not in the interaction case (needsAgent false, or
\* requiredInfo absent or empty) is executed: executePlan goes through its
\* steps and returns execution results, never an interaction-required
\* result; so for a plan with needsAgent true and an empty requiredInfo list.
C25_NonInteractionPlanExecuted ==
  (entry = "command" /\ ExecutorEntered /\ ~InteractionCase(plan)) =>
    /\ execStatus # "interaction"
    /\ ~interp.requires_interaction

\* ------------------------------------------------------------------ C24
\* the lines handed to the shell by the MCPS loop, in the order they were run
McpsRan == SelectSeq(executed, LAMBDA r : r.what = "mcps")
McpsAnswered == entry = "command" /\ pc = "done" /\ mcps /\ McpsIndex > 0

\* C24: in MCPS mode the lines the step-list query returned are run one at a
\* time and in order, a failed line does not keep the later lines from
\* running: the steps of the response have one entry per line, in the order
\* of the lines, and the response has type mcps with success=true.
C24_McpsEveryLineInOrder ==
  /\ \A i \in 1..Len(McpsRan) : McpsRan[i].text = McpsLine(i)
  /\ \A i \in 1..Len(mcpsResults) : mcpsResults[i].command = i
  /\ pc = "mcpsStepWait" => Len(McpsRan) = Len(mcpsResults) + 1
  /\ pc = "mcpsLoop" => Len(McpsRan) = Len(mcpsResults)
  /\ McpsAnswered =>
       /\ Len(mcpsResults) = mcpsLines
       /\ Len(McpsRan) = mcpsLines
       /\ response = Json(200, TRUE, "mcps")
       /\ body.steps = mcpsResults

\* a failed first line followed by a second line that ran
C24_Witness ==
  /\ McpsAnswered
  /\ mcpsLines = 2
  /\ ~mcpsResults[1].ok
  /\ mcpsResults[2].ok
  /\ body.type = "mcps"

\* ------------------------------------------------------------------ C27
\* an external call of the request never completes
NeverCompletes == backendA = "hung" \/ backendB = "hung"

\* C27: every request received by the /command endpoint gets exactly one
\* response on every branch, provided every external call completes or
\* fails: no path responds twice and none ends without a response.
C27_ExactlyOneResponse ==
  /\ [](entry = "command" => sent <= 1)
  /\ [](entry = "command" /\ pc = "done" => sent = 1)
  /\ (entry = "command") ~> (sent = 1 \/ NeverCompletes)

\* a response written from the catch block
C27_Witness ==
  /\ entry = "command"
  /\ pc = "done"
  /\ sent = 1
  /\ response.status = 500

\* ------------------------------------------------------------------ C29
Settled == {"plan", "nonzero", "timeout"}
LateEvent == (timer # timer' \/ child # child') /\ pc' = pc

\* C29: in tryGenaiscript and tryDeepseekHelper the outcome of a backend call
\* is decided once, by whichever of the close event and the timeout comes
\* first: a settled outcome never changes afterwards, an event that arrives
\* late leaves the architecture result, the response and the position of the
\* request as they are, and backend B is never started a second time.
C29_OutcomeDecidedOnce ==
  [][/\ backendA \in Settled => backendA' = backendA
     /\ backendB \in Settled => backendB' = backendB
     /\ LateEvent => /\ architectResult' = architectResult
                     /\ response' = response
     /\ backendB # "untried" => pc' # "tryDeepseekHelper"]_vars

\* the close event of backend A arrived after its timer had fired, and the
\* timer of backend B fired after the child had exited with a plan
C29_Witness ==
  /\ entry = "processComplexCommand"
  /\ backendA = "timeout" /\ child["A"] = "closed"
  /\ backendB = "plan" /\ timer["B"] = "fired"
  /\ architectResult.success /\ architectResult.method = "deepseek"

\* ------------------------------------------------------------------ C26
\* C26: after any sequence of initial load and reloads every native module
\* in the registry is initialised: the most recent lifecycle call on it is a
\* fazai_mod_init that returned 0 (a module whose file disappeared or whose
\* re-initialisation failed has no entry), and no module gets a second
\* cleanup without a successful init in between.
C26_RegistryInitialised ==
  /\ \A m \in Keys(loadedMods) : lifecycle[m] = "init0"
  /\ \A m \in Mods : cleanups[m] <= 1

\* ------------------------------------------------------------------ C21
InFlight == entry = "command" /\ pc \notin {"idle", "done", "crashed"}
OnePass(registry) == \A j, k \in Keys(registry) : registry[j] = registry[k]

====
